---- MODULE Spec2Model ----
(***************************************************************************)
(* A model of src/mock_server.js: the MockServer module that is exported   *)
(* last in the file (lines 387-712).  The file holds an older revision of  *)
(* the same module first (lines 59-329); its export is overwritten by the  *)
(* second assignment to exports.MockServer, so the second one is the       *)
(* program.                                                                *)
(*                                                                         *)
(* JavaScript strings whose characters the code inspects (port strings,    *)
(* url and data patterns, request urls and bodies) are sequences of        *)
(* one-character strings.  Strings the code only passes along (response    *)
(* texts, file paths, method names) are TLA+ strings.  A JavaScript object *)
(* is a function whose DOMAIN is the set of its own keys, so that          *)
(* Object.keys(o).length is Cardinality(DOMAIN o).                         *)
(***************************************************************************)
EXTENDS Integers, Sequences, FiniteSets, TLC

\* ------------------------------------------------------------------------
\* Bounds of the model
\* ------------------------------------------------------------------------
\* how many inbound requests a behaviour holds
MaxReq == 1
\* how many entries _mapping may hold
MaxMapping == 2

\* ------------------------------------------------------------------------
\* JavaScript values and library functions
\* ------------------------------------------------------------------------
\* the value parseInt yields for a string without leading digits; every
\* ordered comparison with it is false and it is not === to anything
NaN == -999999

Gt(a, b) == a # NaN /\ b # NaN /\ a > b
\* an off-by-one comparison
LtOrEqual(a, b) == a # NaN /\ b # NaN /\ a <= b

Lt(a, b) == a # NaN /\ b # NaN /\ a < b

\* a comparison that finds no two ports the same
StrictEqNever(a, b) == FALSE

StrictEq(a, b) == a # NaN /\ b # NaN /\ a = b

Digits == {"0", "1", "2", "3", "4", "5", "6", "7", "8", "9"}

DigitVal(c) ==
    CASE c = "0" -> 0 [] c = "1" -> 1 [] c = "2" -> 2 [] c = "3" -> 3
      [] c = "4" -> 4 [] c = "5" -> 5 [] c = "6" -> 6 [] c = "7" -> 7
      [] c = "8" -> 8 [] c = "9" -> 9

\* String.prototype.trim on a sequence of characters
RECURSIVE TrimLeft(_)
TrimLeft(s) == IF s # <<>> /\ Head(s) = " " THEN TrimLeft(Tail(s)) ELSE s

RECURSIVE TrimRight(_)
TrimRight(s) ==
    IF s # <<>> /\ s[Len(s)] = " " THEN TrimRight(SubSeq(s, 1, Len(s) - 1)) ELSE s

trim(s) == TrimRight(TrimLeft(s))

\* the digits parseInt consumes from position i on; NaN when there are none
RECURSIVE ParseDigits(_, _, _, _)
ParseDigits(s, i, acc, any) ==
    IF i > Len(s) \/ s[i] \notin Digits
    THEN (IF any THEN acc ELSE NaN)
    ELSE ParseDigits(s, i + 1, acc * 10 + DigitVal(s[i]), TRUE)

\* parseInt(string): leading white space, an optional sign, then the longest
\* run of decimal digits; what follows the digits is ignored
parseInt(str) ==
    LET t == TrimLeft(str)
        signed == t # <<>> /\ t[1] \in {"-", "+"}
        mag == ParseDigits(t, IF signed THEN 2 ELSE 1, 0, FALSE)
    IN  IF mag = NaN THEN NaN
        ELSE IF signed /\ t[1] = "-" THEN 0 - mag ELSE mag

\* typeof myVar === 'string', on the tagged values the model passes as a port
isString(v) == v.t = "string"

isNumber(v) == v.t = "number"

\* String.prototype.toUpperCase on the method names the model uses
toUpperCase(m) ==
    CASE m = "get" -> "GET"
      [] m = "post" -> "POST"
      [] OTHER -> m

toLowerCase(m) ==
    CASE m = "TRUE" -> "true"
      [] m = "True" -> "true"
      [] m = "FALSE" -> "false"
      [] OTHER -> m

\* a.indexOf(b) >= 0
Contains(a, b) ==
    \E k \in 1..(Len(a) + 1) :
        k + Len(b) - 1 <= Len(a) /\ SubSeq(a, k, k + Len(b) - 1) = b

\* the atoms of a regular expression source made of literals, "." and
\* backslash escapes
RECURSIVE Tokens(_, _)
Tokens(p, i) ==
    IF i > Len(p) THEN <<>>
    ELSE IF p[i] = "\\"
         THEN <<[any |-> FALSE, c |-> p[i + 1]]>> \o Tokens(p, i + 2)
         ELSE <<[any |-> p[i] = ".", c |-> p[i]]>> \o Tokens(p, i + 1)

\* new RegExp(p).test(s): an unanchored search
RegExpTest(p, s) ==
    LET toks == Tokens(p, 1) IN
    \E k \in 1..(Len(s) + 1) :
        /\ k + Len(toks) - 1 <= Len(s)
        /\ \A j \in 1..Len(toks) : toks[j].any \/ toks[j].c = s[k + j - 1]

\* str.replace(/\"/g, "\\\""): a backslash before every double quote
RECURSIVE EscapeQuotes(_)
EscapeQuotes(s) ==
    IF s = <<>> THEN <<>>
    ELSE (IF Head(s) = "\"" THEN <<"\\", "\"">> ELSE <<Head(s)>>)
         \o EscapeQuotes(Tail(s))

\* the characters JSON.stringify writes for the characters of a string
RECURSIVE JsonChars(_)
JsonChars(s) ==
    IF s = <<>> THEN <<>>
    ELSE (IF Head(s) \in {"\"", "\\"} THEN <<"\\", Head(s)>> ELSE <<Head(s)>>)
         \o JsonChars(Tail(s))

\* JSON.stringify of a string value
JSONstringify(s) == <<"\"">> \o JsonChars(s) \o <<"\"">>

\* !obj.key for a key that holds a sequence of characters: undefined or ""
Falsy(obj, key) == key \notin DOMAIN obj \/ obj[key] = <<>>

\* !obj.key for a key that holds a name: undefined or ""
FalsyName(obj, key) == key \notin DOMAIN obj \/ obj[key] = ""

\* Object.keys(obj).length === 0
NoKeys(obj) == DOMAIN obj = {}

\* the empty object literal {}
EmptyObject == [k \in {} |-> 0]

\* ------------------------------------------------------------------------
\* State
\* ------------------------------------------------------------------------
VARIABLES
    server,         \* the webserver object the module holds, or null
    _mapping,       \* the ordered list of {request, response} entries
    _port,          \* the stored port
    _isServerUp,    \* what isServerUp() returns
    _currentReq,    \* the pending request pattern; {} when there is none
    casperInUse,    \* isCasperInUsed(): the host runs CasperJS
    hook,           \* casper.options.onResourceRequested
    _existingOnResourceRequested,  \* the value of that option found at load
    listeners,      \* the ports on which a webserver of this module listens
    responses,      \* one response object per inbound request, in arrival order
    lastCall        \* the last call of the public interface and how it ended

vars == <<server, _mapping, _port, _isServerUp, _currentReq, casperInUse,
          hook, listeners, responses, lastCall, _existingOnResourceRequested>>

\* the variables of the module closure, as one value the functions transform
Module ==
    [server |-> server, mapping |-> _mapping, port |-> _port,
     isServerUp |-> _isServerUp, currentReq |-> _currentReq,
     casperInUse |-> casperInUse, hook |-> hook,
     existing |-> _existingOnResourceRequested, listeners |-> listeners]

\* var server = null
NullServer == [isNull |-> TRUE, boundTo |-> 0]

\* require('webserver').create(): a server that does not listen yet
CreateServer == [isNull |-> FALSE, boundTo |-> 0]

\* the message thrown by a call, or the mark of a normal return
NoError == "none"

\* what a call returns: the mockServer object, undefined when the function
\* ends without a return statement, nothing when it throws
MockServerObject == "mockServer"
Undefined == "undefined"
Thrown == "thrown"

\* the value of the return statements of each function
startReturn == MockServerObject
closeReturn == Undefined
whenReturn == MockServerObject
responseReturn == MockServerObject
resetReturn == MockServerObject

\* what start prints on its two normal paths
SamePortLog == "Mock Server has started already, no need to restart"
UpLog == "Mock Server is up"

\* ------------------------------------------------------------------------
\* The functions of the module, as functions of the module state m
\* ------------------------------------------------------------------------
isCasperInUsed(m) == m.casperInUse

\* a reset that forgets the pending pattern
resetKeepsPending(m) ==
    [m EXCEPT !.mapping = <<>>,
              !.hook = IF isCasperInUsed(m) THEN m.existing ELSE @]

reset(m) ==
    [m EXCEPT !.mapping = <<>>,
              !.currentReq = EmptyObject,
              !.hook = IF isCasperInUsed(m) THEN m.existing ELSE @]

\* a close that drops the server object and leaves its listener bound
ServerCloseLeaks(m) == [m EXCEPT !.server = NullServer]

\* server.close() of the webserver module: the listener is unbound
ServerClose(m) ==
    [m EXCEPT !.listeners = @ \ {m.server.boundTo},
              !.server = NullServer]

\* a close that forgets to clear the stored port
closeKeepsPort(m) ==
    LET r == reset(m)
        c == [r EXCEPT !.isServerUp = FALSE]
    IN  IF ~c.server.isNull THEN ServerClose(c) ELSE c

close(m) ==
    LET r == reset(m)
        c == [r EXCEPT !.port = 0, !.isServerUp = FALSE]
    IN  IF ~c.server.isNull THEN ServerClose(c) ELSE c

addToResourceRequestedEvent(m) ==
    IF m.port = 0 THEN m
    ELSE IF ~isCasperInUsed(m) THEN m
    ELSE [m EXCEPT !.hook = "bridge"]

when(m, req) ==
    LET r == IF ~Falsy(req, "data")
             THEN [req EXCEPT !["data"] = EscapeQuotes(@)]
             ELSE req
    IN  [m |-> [m EXCEPT !.currentReq = r], threw |-> NoError]

\* a response that does not look at the pending slot
responseUnchecked(m, resp) ==
    LET pushed == [m EXCEPT !.mapping =
                       Append(@, [request |-> m.currentReq, response |-> resp])]
        added == addToResourceRequestedEvent(pushed)
    IN  [m |-> [added EXCEPT !.currentReq = EmptyObject], threw |-> NoError]

response(m, resp) ==
    IF NoKeys(m.currentReq)
    THEN [m |-> m, threw |-> "Please call .when() to set the request pattern first"]
    ELSE LET pushed == [m EXCEPT !.mapping =
                            Append(@, [request |-> m.currentReq, response |-> resp])]
             added == addToResourceRequestedEvent(pushed)
         IN  [m |-> [added EXCEPT !.currentReq = EmptyObject], threw |-> NoError]

\* server.listen(_port, handler): binds unless the port is taken or is no port
Listen(m, free) ==
    LET ok == free /\ m.port # NaN /\ m.port \notin m.listeners
    IN  [m |-> [m EXCEPT !.server.boundTo = IF ok THEN m.port ELSE 0,
                         !.listeners = IF ok THEN @ \cup {m.port} ELSE @],
         result |-> ok]

\* a start that closes the server whether or not it is up
startClosesFirst(m, port, free) ==
    IF ~isString(port) /\ ~isNumber(port)
    THEN [m |-> m, threw |-> "Invalid port number", log |-> "Invalid port number"]
    ELSE
    LET thisPort == IF isString(port) THEN parseInt(trim(port.s)) ELSE port.n IN
    IF Gt(thisPort, 49151) \/ Lt(thisPort, 1025)
    THEN [m |-> m, threw |-> "Port number is out of the range[1025-49151]",
          log |-> "Port number is out of the range[1025-49151]"]
    ELSE IF m.isServerUp /\ StrictEq(thisPort, m.port)
    THEN [m |-> reset(m), threw |-> NoError, log |-> SamePortLog]
    ELSE
    LET closed == close(m)
        created == [closed EXCEPT !.port = thisPort, !.server = CreateServer]
        hooked == addToResourceRequestedEvent(created)
        bound == Listen(hooked, free)
    IN  [m |-> [bound.m EXCEPT !.isServerUp = bound.result],
         threw |-> IF bound.result THEN NoError
                   ELSE "Mock Server is NOT started successfully.",
         log |-> IF bound.result THEN UpLog
                 ELSE "Mock Server is NOT started successfully."]

\* start(port); free says whether the operating system lets the port be bound
start(m, port, free) ==
    IF ~isString(port) /\ ~isNumber(port)
    THEN [m |-> m, threw |-> "Invalid port number", log |-> "Invalid port number"]
    ELSE
    LET thisPort == IF isString(port) THEN parseInt(trim(port.s)) ELSE port.n IN
    IF Gt(thisPort, 49151) \/ Lt(thisPort, 1025)
    THEN [m |-> m, threw |-> "Port number is out of the range[1025-49151]",
          log |-> "Port number is out of the range[1025-49151]"]
    ELSE IF m.isServerUp /\ StrictEq(thisPort, m.port)
    THEN [m |-> reset(m), threw |-> NoError, log |-> SamePortLog]
    ELSE
    LET closed == IF m.isServerUp /\ ~StrictEq(thisPort, m.port) THEN close(m) ELSE m
        created == [closed EXCEPT !.port = thisPort, !.server = CreateServer]
        hooked == addToResourceRequestedEvent(created)
        bound == Listen(hooked, free)
    IN  [m |-> [bound.m EXCEPT !.isServerUp = bound.result],
         threw |-> IF bound.result THEN NoError
                   ELSE "Mock Server is NOT started successfully.",
         log |-> IF bound.result THEN UpLog
                 ELSE "Mock Server is NOT started successfully."]

isServerUp(m) == m.isServerUp

\* ------------------------------------------------------------------------
\* The request handler passed to server.listen
\* ------------------------------------------------------------------------
\* what the handler writes when a when() waits for its response()
PendingMsg ==
    "You have .when() been called, but NO .response() following to define the expected response."

\* the files fs.read can read and what they hold; fs.read throws on the rest
ReadableFiles == {"ok.txt"}

fsRead(path) == "content of " \o path

\* the response object the webserver hands to the handler, and the locals of
\* the handler the scheduled callback closes over
NewResponse(request) ==
    [req |-> request, statusCode |-> 200, headers |-> {}, writes |-> <<>>,
     closes |-> 0, timers |-> <<>>, elapsed |-> 0, isMatched |-> FALSE,
     branch |-> "none", entry |-> 0, reads |-> {}]

\* request.post && ...
HasPost(request) == "post" \in DOMAIN request /\ request.post # <<>>

\* a condition that does not look at the body
MatchCondIgnoresData(expReq, request) ==
    /\ \/ FalsyName(expReq, "method")
       \/ toUpperCase(expReq.method) = request.method
    /\ \/ Falsy(expReq, "url")
       \/ Contains(request.url, expReq.url)
       \/ RegExpTest(expReq.url, request.url)

\* the condition of the if statement inside the loop
MatchCond(expReq, request) ==
    /\ \/ FalsyName(expReq, "method")
       \/ toUpperCase(expReq.method) = request.method
    /\ \/ Falsy(expReq, "url")
       \/ Contains(request.url, expReq.url)
       \/ RegExpTest(expReq.url, request.url)
    /\ \/ Falsy(expReq, "data")
       \/ (HasPost(request) /\ Contains(JSONstringify(request.post), expReq.data))
       \/ (HasPost(request) /\ RegExpTest(expReq.data, JSONstringify(request.post)))

\* the requestData the page hands to onResourceRequested for the request
\* the socket would deliver as request: same method and url, the body as
\* postData when there is one
RequestData(request) ==
    IF "post" \in DOMAIN request
    THEN [method |-> request.method, url |-> request.url, postData |-> request.post]
    ELSE [method |-> request.method, url |-> request.url]

\* the condition of the if statement in changeUrl, with the TypeError of
\* requestData.postData.indexOf when the outbound request has no postData
ChangeUrlCond(expReq, requestData) ==
    IF ~(FalsyName(expReq, "method")
           \/ toUpperCase(expReq.method) = requestData.method)
    THEN "pass"
    ELSE IF ~(\/ Falsy(expReq, "url")
              \/ Contains(requestData.url, expReq.url)
              \/ RegExpTest(expReq.url, requestData.url))
    THEN "pass"
    ELSE IF Falsy(expReq, "data") THEN "redirect"
    ELSE IF "postData" \notin DOMAIN requestData THEN "TypeError"
    ELSE IF \/ Contains(requestData.postData, expReq.data)
            \/ RegExpTest(expReq.data, requestData.postData)
    THEN "redirect"
    ELSE "pass"

\* typeof f === "function", for the values the hook option takes
IsFunction(f) == f \notin {"undefined", "{}"}

\* the first index from i on at which s holds c, 0 if there is none
RECURSIVE IndexFrom(_, _, _)
IndexFrom(s, c, i) ==
    IF i > Len(s) THEN 0
    ELSE IF s[i] = c THEN i
    ELSE IndexFrom(s, c, i + 1)

\* String(n) for a port number
RECURSIVE ToDigits(_)
ToDigits(n) ==
    LET d == CHOOSE c \in Digits : DigitVal(c) = n % 10
    IN  IF n < 10 THEN <<d>> ELSE ToDigits(n \div 10) \o <<d>>

\* what the anchor element keeps of an absolute url when protocol, host and
\* port are set: the path, the query and the fragment
AfterAuthority(url) ==
    LET colon == IndexFrom(url, ":", 1)
        slash == IndexFrom(url, "/", colon + 3)
    IN  IF slash = 0 THEN <<"/">> ELSE SubSeq(url, slash, Len(url))

\* location.href after protocol "http", host "127.0.0.1" and port _port
LocationHref(url, port) ==
    <<"h", "t", "t", "p", ":", "/", "/", "1", "2", "7", ".", "0", ".", "0", ".", "1", ":">>
        \o ToDigits(port) \o AfterAuthority(url)

\* the loop over the entries and the pending pattern: one changeUrl call
\* for each pattern whose condition holds, until a condition throws
RECURSIVE ChangeUrlLoop(_, _, _, _, _)
ChangeUrlLoop(patterns, requestData, port, calls, i) ==
    IF i > Len(patterns) THEN [calls |-> calls, threw |-> NoError]
    ELSE LET cond == ChangeUrlCond(patterns[i], requestData) IN
         IF cond = "TypeError" THEN [calls |-> calls, threw |-> "TypeError"]
         ELSE IF cond = "redirect"
         THEN ChangeUrlLoop(patterns, requestData, port,
                            Append(calls, [call |-> "changeUrl",
                                           arg |-> LocationHref(requestData.url, port)]),
                            i + 1)
         ELSE ChangeUrlLoop(patterns, requestData, port, calls, i + 1)

\* the function installed as casper.options.onResourceRequested, run on one
\* outbound request: the calls it makes, in order, and how it ends
onResourceRequested(m, requestData) ==
    LET first == IF IsFunction(m.existing)
                 THEN <<[call |-> m.existing, arg |-> requestData]>>
                 ELSE <<>>
        patterns == [i \in 1..Len(m.mapping) |-> m.mapping[i].request]
                        \o (IF NoKeys(m.currentReq) THEN <<>> ELSE <<m.currentReq>>)
    IN  ChangeUrlLoop(patterns, requestData, m.port, first, 1)

\* a test that forgets the string "true"
IsTimeoutBooleanOnly(expResp) ==
    /\ "isTimeout" \in DOMAIN expResp
    /\ expResp.isTimeout.t = "boolean" /\ expResp.isTimeout.b

\* expResp.isTimeout === true || (isString(...) && ....toLowerCase() === "true")
IsTimeout(expResp) ==
    /\ "isTimeout" \in DOMAIN expResp
    /\ \/ (expResp.isTimeout.t = "boolean" /\ expResp.isTimeout.b)
       \/ (isString(expResp.isTimeout) /\ toLowerCase(expResp.isTimeout.name) = "true")

\* a delay that is never taken from the plan
TimeoutAlwaysZero(expResp) == 0

\* var timeout = expResp.responseTime; if (!isNumber(timeout)) timeout = 0
Timeout(expResp) ==
    IF "responseTime" \in DOMAIN expResp /\ isNumber(expResp.responseTime)
    THEN expResp.responseTime.n
    ELSE 0

\* the files the handler asks fs.read for
FileReads(expResp) ==
    IF "responseText" \notin DOMAIN expResp
       /\ "responseFile" \in DOMAIN expResp /\ expResp.responseFile # ""
    THEN {expResp.responseFile}
    ELSE {}

\* a resolution that lets the file win over the text
ResponseTextFileFirst(expResp) ==
    IF "responseFile" \in DOMAIN expResp /\ expResp.responseFile # ""
    THEN IF expResp.responseFile \in ReadableFiles
         THEN fsRead(expResp.responseFile) ELSE ""
    ELSE IF "responseText" \in DOMAIN expResp THEN expResp.responseText
    ELSE ""

\* the text the scheduled callback writes
ResponseText(expResp) ==
    IF "responseText" \in DOMAIN expResp THEN expResp.responseText
    ELSE IF "responseFile" \in DOMAIN expResp /\ expResp.responseFile # ""
              /\ expResp.responseFile \in ReadableFiles
         THEN fsRead(expResp.responseFile)
         ELSE ""

\* the body of the if statement: the response is built from entry i
BuildResponse(resp, expResp, i) ==
    LET set == [resp EXCEPT
                   !.isMatched = TRUE,
                   !.entry = i,
                   !.statusCode = IF "status" \in DOMAIN expResp /\ expResp.status # 0
                                  THEN expResp.status ELSE 200,
                   !.headers = IF "headers" \in DOMAIN expResp
                               THEN expResp.headers ELSE {}]
    IN  IF IsTimeout(expResp)
        THEN [set EXCEPT !.branch = "timeout"]
        ELSE [set EXCEPT
                 !.branch = "matched",
                 !.reads = @ \cup FileReads(expResp),
                 !.timers = Append(@, [timeout |-> Timeout(expResp),
                                       remaining |-> Timeout(expResp),
                                       responseText |-> ResponseText(expResp),
                                       fired |-> FALSE])]

\* a loop that does not stop at the first match
RECURSIVE MatchLoopNoStop(_, _, _, _)
MatchLoopNoStop(mapping, request, resp, i) ==
    IF ~(i <= Len(mapping)) THEN resp
    ELSE MatchLoopNoStop(mapping, request,
                         IF MatchCond(mapping[i].request, request)
                         THEN BuildResponse(resp, mapping[i].response, i)
                         ELSE resp,
                         i + 1)

\* for (var i = 0; i < _mapping.length && !isMatched; i++); i counts from 1
RECURSIVE MatchLoop(_, _, _, _)
MatchLoop(mapping, request, resp, i) ==
    IF ~(i <= Len(mapping) /\ ~resp.isMatched) THEN resp
    ELSE MatchLoop(mapping, request,
                   IF MatchCond(mapping[i].request, request)
                   THEN BuildResponse(resp, mapping[i].response, i)
                   ELSE resp,
                   i + 1)

\* a handler that serves from the mapping list whatever the pending slot holds
HandlerIgnoresPending(m, request) ==
    LET looped == MatchLoop(m.mapping, request, NewResponse(request), 1) IN
    IF ~looped.isMatched
    THEN [looped EXCEPT !.statusCode = 404, !.closes = 1, !.branch = "nomatch"]
    ELSE looped

\* the handler, run on one inbound request against the module state m
Handler(m, request) ==
    LET fresh == NewResponse(request) IN
    IF ~NoKeys(m.currentReq)
    THEN [fresh EXCEPT !.writes = <<PendingMsg>>, !.closes = 1, !.branch = "pending"]
    ELSE LET looped == MatchLoop(m.mapping, request, fresh, 1) IN
         IF ~looped.isMatched
         THEN [looped EXCEPT !.statusCode = 404, !.closes = 1, !.branch = "nomatch"]
         ELSE looped

\* a callback that looks the text up in the mapping list when it runs
TimerCallbackLooksUp(resp, k) ==
    [resp EXCEPT !.writes = Append(@, IF resp.entry <= Len(_mapping)
                                      THEN ResponseText(_mapping[resp.entry].response)
                                      ELSE ""),
                 !.closes = @ + 1,
                 !.timers[k].fired = TRUE]

\* the callback given to setTimeout, run for timer k of a response object
TimerCallback(resp, k) ==
    [resp EXCEPT !.writes = Append(@, resp.timers[k].responseText),
                 !.closes = @ + 1,
                 !.timers[k].fired = TRUE]

\* a timer of the response object has not run yet
Waiting(resp) == \E k \in 1..Len(resp.timers) : ~resp.timers[k].fired

\* one millisecond passes for a response object
Elapse(resp) ==
    [resp EXCEPT !.elapsed = IF Waiting(resp) THEN @ + 1 ELSE @,
                 !.timers = [k \in 1..Len(@) |->
                                [@[k] EXCEPT !.remaining = IF @ > 0 THEN @ - 1 ELSE 0]]]

\* ------------------------------------------------------------------------
\* Initial state and actions
\* ------------------------------------------------------------------------
\* the module as the IIFE leaves it; the host either runs CasperJS or not
Init ==
    /\ server = NullServer
    /\ _mapping = <<>>
    /\ _port = 0
    /\ _isServerUp = FALSE
    /\ _currentReq = EmptyObject
    /\ casperInUse \in BOOLEAN
    /\ hook = "existing"
    /\ _existingOnResourceRequested = (IF casperInUse THEN hook ELSE "{}")
    /\ listeners = {}
    /\ responses = <<>>
    /\ lastCall = [op |-> "load", threw |-> NoError, ret |-> MockServerObject,
                   log |-> "", wasOn |-> 0]

\* the module variables after a function has run
Commit(m) ==
    /\ server' = m.server
    /\ _mapping' = m.mapping
    /\ _port' = m.port
    /\ _isServerUp' = m.isServerUp
    /\ _currentReq' = m.currentReq
    /\ casperInUse' = m.casperInUse
    /\ hook' = m.hook
    /\ _existingOnResourceRequested' = m.existing
    /\ listeners' = m.listeners

CallStart(port, free) ==
    LET r == start(Module, port, free) IN
    /\ Commit(r.m)
    /\ lastCall' = [op |-> "start", threw |-> r.threw,
                    ret |-> IF r.threw = NoError THEN startReturn ELSE Thrown,
                    log |-> r.log,
                    wasOn |-> IF _isServerUp THEN _port ELSE 0]
    /\ UNCHANGED responses

CallClose ==
    /\ Commit(close(Module))
    /\ lastCall' = [op |-> "close", threw |-> NoError, ret |-> closeReturn,
                    log |-> "", wasOn |-> 0]
    /\ UNCHANGED responses

CallWhen(req) ==
    LET r == when(Module, req) IN
    /\ Commit(r.m)
    /\ lastCall' = [op |-> "when", threw |-> r.threw,
                    ret |-> IF r.threw = NoError THEN whenReturn ELSE Thrown,
                    log |-> "", wasOn |-> 0]
    /\ UNCHANGED responses

CallResponse(resp) ==
    LET r == response(Module, resp) IN
    /\ Len(r.m.mapping) <= MaxMapping
    /\ Commit(r.m)
    /\ lastCall' = [op |-> "response", threw |-> r.threw,
                    ret |-> IF r.threw = NoError THEN responseReturn ELSE Thrown,
                    log |-> "", wasOn |-> 0]
    /\ UNCHANGED responses

CallReset ==
    /\ Commit(reset(Module))
    /\ lastCall' = [op |-> "reset", threw |-> NoError, ret |-> resetReturn,
                    log |-> "", wasOn |-> 0]
    /\ UNCHANGED responses

\* a request reaches a listener of the module and the handler runs
Serve(request) ==
    /\ listeners # {}
    /\ responses' = Append(responses, Handler(Module, request))
    /\ UNCHANGED <<server, _mapping, _port, _isServerUp, _currentReq,
                   casperInUse, hook, _existingOnResourceRequested,
                   listeners, lastCall>>

Request(request) ==
    /\ Len(responses) < MaxReq
    /\ Serve(request)

\* time passes while a timer waits
Tick ==
    /\ \E i \in 1..Len(responses) : \E k \in 1..Len(responses[i].timers) :
           ~responses[i].timers[k].fired /\ responses[i].timers[k].remaining > 0
    /\ responses' = [i \in 1..Len(responses) |-> Elapse(responses[i])]
    /\ UNCHANGED <<server, _mapping, _port, _isServerUp, _currentReq,
                   casperInUse, hook, _existingOnResourceRequested,
                   listeners, lastCall>>

\* a timer that runs only when every earlier connection is closed
FireInOrder(i, k) ==
    /\ i \in 1..Len(responses)
    /\ k \in 1..Len(responses[i].timers)
    /\ ~responses[i].timers[k].fired
    /\ responses[i].timers[k].remaining = 0
    /\ \A j \in 1..(i - 1) : responses[j].closes > 0
    /\ responses' = [responses EXCEPT ![i] = TimerCallback(@, k)]
    /\ UNCHANGED <<server, _mapping, _port, _isServerUp, _currentReq,
                   casperInUse, hook, _existingOnResourceRequested,
                   listeners, lastCall>>

\* a timer that is due runs its callback
Fire(i, k) ==
    /\ i \in 1..Len(responses)
    /\ k \in 1..Len(responses[i].timers)
    /\ ~responses[i].timers[k].fired
    /\ responses[i].timers[k].remaining = 0
    /\ responses' = [responses EXCEPT ![i] = TimerCallback(@, k)]
    /\ UNCHANGED <<server, _mapping, _port, _isServerUp, _currentReq,
                   casperInUse, hook, _existingOnResourceRequested,
                   listeners, lastCall>>

FireSome ==
    \E i \in 1..Len(responses) : \E k \in 1..Len(responses[i].timers) : Fire(i, k)

\* the script of the host assigns casper.options.onResourceRequested
HostSetsHook(f) ==
    /\ casperInUse
    /\ hook' = f
    /\ UNCHANGED <<server, _mapping, _port, _isServerUp, _currentReq,
                   casperInUse, _existingOnResourceRequested, listeners,
                   responses, lastCall>>

\* the page asks for a resource while the hook of the module is installed
OutboundRequest(requestData) ==
    LET run == onResourceRequested(Module, requestData) IN
    /\ casperInUse
    /\ hook = "bridge"
    /\ lastCall' = [op |-> "onResourceRequested", threw |-> run.threw,
                    ret |-> IF run.threw = NoError THEN Undefined ELSE Thrown,
                    log |-> "", wasOn |-> 0, calls |-> run.calls]
    /\ UNCHANGED <<server, _mapping, _port, _isServerUp, _currentReq,
                   casperInUse, hook, _existingOnResourceRequested,
                   listeners, responses>>

\* ------------------------------------------------------------------------
\* Inputs
\* ------------------------------------------------------------------------
Num(n) == [t |-> "number", n |-> n]
Str(s) == [t |-> "string", s |-> s]
Bool(b) == [t |-> "boolean", b |-> b]
Name(s) == [t |-> "string", name |-> s]

\* port arguments inside the range
ValidPorts ==
    {Num(1025), Num(49151), Str(<<" ", "1", "0", "2", "5", " ">>),
     Str(<<"4", "9", "1", "5", "1">>)}

\* port arguments that are no number, no port, or outside the range
InvalidPorts ==
    {Num(1024), Num(49152), Num(0), Str(<<"8", "0">>),
     Str(<<"4", "9", "1", "5", "2">>), Str(<<"a", "b", "c">>), Str(<<>>),
     [t |-> "undefined"], [t |-> "object"]}

Ports == ValidPorts \cup InvalidPorts

\* the port a port argument denotes
PortOf(port) == IF isString(port) THEN parseInt(port.s) ELSE port.n

\* request patterns given to when()
PatEmpty == EmptyObject
PatAnyUrl == [url |-> <<>>]
PatGetAb == [method |-> "get", url |-> <<"a", "b">>]
PatRegex == [url |-> <<"a", ".", "c">>]
PatPost == [method |-> "POST", url |-> <<"a", "b">>, data |-> <<"k", "=", "1">>]
PatData == [url |-> <<"a", "b">>, data |-> <<"k", ".", "1">>]

\* inbound requests
ReqGetAb == [method |-> "GET", url |-> <<"/", "a", "b">>]
ReqGetAxc == [method |-> "GET", url |-> <<"/", "a", "x", "c">>]
ReqGetZ == [method |-> "GET", url |-> <<"/", "z">>]
ReqPost1 == [method |-> "POST", url |-> <<"/", "a", "b">>, post |-> <<"k", "=", "1">>]
ReqPost2 == [method |-> "POST", url |-> <<"/", "a", "b">>, post |-> <<"k", "=", "2">>]

\* outbound requests of the page, as onResourceRequested gets them
OutGetAb ==
    [method |-> "GET",
     url |-> <<"h", "t", "t", "p", "s", ":", "/", "/", "x", "/", "a", "b", "?", "q">>]
OutGetZ ==
    [method |-> "GET",
     url |-> <<"h", "t", "t", "p", "s", ":", "/", "/", "x", "/", "z">>]
OutPost1 ==
    [method |-> "POST",
     url |-> <<"h", "t", "t", "p", ":", "/", "/", "x", ":", "8", "/", "a", "b">>,
     postData |-> <<"k", "=", "1">>]

\* response plans given to response()
PlanText ==
    [status |-> 201, responseText |-> "R1",
     headers |-> {<<"Content-Type", "text/plain">>}]
PlanSlow == [responseTime |-> Num(2), responseText |-> "R2"]
PlanHang ==
    [status |-> 500, isTimeout |-> Bool(TRUE), responseTime |-> Num(1),
     responseText |-> "R3"]
PlanHangStr == [isTimeout |-> Name("true"), responseFile |-> "ok.txt"]
PlanNoHang ==
    [isTimeout |-> Name("false"), responseTime |-> Name("2"),
     responseFile |-> "ok.txt"]
PlanNoFile == [isTimeout |-> Bool(FALSE), responseFile |-> "missing.txt"]
PlanBoth ==
    [responseTime |-> Num(1), responseText |-> "R4", responseFile |-> "ok.txt"]
PlanEmptyText == [status |-> 202, responseText |-> "", responseFile |-> "ok.txt"]
PlanBare == [status |-> 204]
PlanQuick == [responseTime |-> Num(1), responseText |-> "R5"]

\* ------------------------------------------------------------------------
\* Specifications
\* ------------------------------------------------------------------------
\* the life cycle of the server: every port argument, few mappings
LifePatterns == {PatEmpty, PatGetAb}
LifePlans == {PlanText, PlanSlow}
LifeRequests == {ReqGetAb}

NextLife ==
    \/ \E port \in Ports, free \in BOOLEAN : CallStart(port, free)
    \/ CallClose
    \/ \E req \in LifePatterns : CallWhen(req)
    \/ \E resp \in LifePlans : CallResponse(resp)
    \/ CallReset
    \/ \E request \in LifeRequests : Request(request)
    \/ Tick
    \/ FireSome

SpecLife == Init /\ [][NextLife]_vars

\* the mapping store: every pattern, one port
MapPorts == {Num(1025)}
MapPatterns == {PatEmpty, PatAnyUrl, PatPost}
MapPlans == {PlanText, PlanSlow}
MapRequests == {ReqGetAb}

NextMap ==
    \/ \E port \in MapPorts : CallStart(port, TRUE)
    \/ CallClose
    \/ \E req \in MapPatterns : CallWhen(req)
    \/ \E resp \in MapPlans : CallResponse(resp)
    \/ CallReset
    \/ \E request \in MapRequests : Request(request)
    \/ Tick
    \/ FireSome

SpecMap == Init /\ [][NextMap]_vars

\* matching: overlapping patterns, plans that differ in every field
ServePorts == {Num(1025)}
ServePatterns == {PatAnyUrl, PatGetAb}
ServePlans == {PlanText, PlanSlow}
ServeRequests == {ReqGetAb, ReqGetZ}

NextServe ==
    \/ \E port \in ServePorts : CallStart(port, TRUE)
    \/ CallClose
    \/ \E req \in ServePatterns : CallWhen(req)
    \/ \E resp \in ServePlans : CallResponse(resp)
    \/ CallReset
    \/ \E request \in ServeRequests : Request(request)
    \/ Tick
    \/ FireSome

SpecServe == Init /\ [][NextServe]_vars

\* timing: every kind of plan behind one pattern; timers run when they are
\* due and time does not stop
TimePorts == {Num(1025)}
TimePatterns == {PatGetAb}
TimePlans == {PlanSlow, PlanHang, PlanHangStr, PlanNoHang}
TimeRequests == {ReqGetAb}

NextTime ==
    \/ \E port \in TimePorts : CallStart(port, TRUE)
    \/ CallClose
    \/ \E req \in TimePatterns : CallWhen(req)
    \/ \E resp \in TimePlans : CallResponse(resp)
    \/ CallReset
    \/ \E request \in TimeRequests : Request(request)
    \/ Tick
    \/ FireSome

SpecTime == Init /\ [][NextTime]_vars /\ WF_vars(Tick) /\ WF_vars(FireSome)

\* the three dimensions of a pattern against requests with and without body
MatchPorts == {Num(1025)}
MatchPatterns == {PatGetAb, PatRegex, PatData}
MatchPlans == {PlanQuick}
MatchRequests == {ReqGetAb, ReqPost1, ReqPost2}

NextMatch ==
    \/ \E port \in MatchPorts : CallStart(port, TRUE)
    \/ CallClose
    \/ \E req \in MatchPatterns : CallWhen(req)
    \/ \E resp \in MatchPlans : CallResponse(resp)
    \/ CallReset
    \/ \E request \in MatchRequests : Request(request)
    \/ Tick
    \/ FireSome

SpecMatch == Init /\ [][NextMatch]_vars

\* requests in flight together, in a host without CasperJS: one more request
\* than the other specifications let in, one pattern, plans of different
\* delays, and a mapping list of one entry that reset() empties for the next
ConcReq == MaxReq + 1
ConcPorts == {Num(1025)}
ConcPatterns == {PatGetAb}
ConcPlans == {PlanText, PlanSlow, PlanQuick, PlanHang}
ConcRequests == {ReqGetAb}

NextConc ==
    \/ \E port \in ConcPorts : CallStart(port, TRUE)
    \/ CallClose
    \/ \E req \in ConcPatterns : CallWhen(req)
    \/ \E resp \in ConcPlans : _mapping = <<>> /\ CallResponse(resp)
    \/ CallReset
    \/ \E request \in ConcRequests : Len(responses) < ConcReq /\ Serve(request)
    \/ Tick
    \/ FireSome

InitConc == Init /\ ~casperInUse

SpecConc == InitConc /\ [][NextConc]_vars /\ WF_vars(Tick) /\ WF_vars(FireSome)

\* the hook on outbound requests: a CasperJS host whose script finds a
\* function or nothing in the option at load and may assign it later
BridgePorts == {Num(1025)}
BridgePatterns == {PatAnyUrl, PatGetAb, PatData}
BridgePlans == {PlanQuick}
HostHooks == {"later"}
OutboundRequests == {OutGetAb, OutGetZ, OutPost1}

InitBridge ==
    /\ server = NullServer
    /\ _mapping = <<>>
    /\ _port = 0
    /\ _isServerUp = FALSE
    /\ _currentReq = EmptyObject
    /\ casperInUse = TRUE
    /\ hook \in {"existing", "undefined"}
    /\ _existingOnResourceRequested = hook
    /\ listeners = {}
    /\ responses = <<>>
    /\ lastCall = [op |-> "load", threw |-> NoError, ret |-> MockServerObject,
                   log |-> "", wasOn |-> 0]

NextBridge ==
    \/ \E port \in BridgePorts : CallStart(port, TRUE)
    \/ CallClose
    \/ \E req \in BridgePatterns : CallWhen(req)
    \/ \E resp \in BridgePlans : CallResponse(resp)
    \/ CallReset
    \/ \E f \in HostHooks : HostSetsHook(f)
    \/ \E requestData \in OutboundRequests : OutboundRequest(requestData)

SpecBridge == InitBridge /\ [][NextBridge]_vars

\* the body of a response: text, file, both or neither, in a host without
\* CasperJS, with the same fairness
BodyPorts == {Num(1025)}
BodyPatterns == {PatGetAb}
BodyPlans == {PlanBoth, PlanEmptyText, PlanNoHang, PlanNoFile, PlanBare}
BodyRequests == {ReqGetAb}

NextBody ==
    \/ \E port \in BodyPorts : CallStart(port, TRUE)
    \/ CallClose
    \/ \E req \in BodyPatterns : CallWhen(req)
    \/ \E resp \in BodyPlans : CallResponse(resp)
    \/ CallReset
    \/ \E request \in BodyRequests : Request(request)
    \/ Tick
    \/ FireSome

InitBody == Init /\ ~casperInUse

SpecBody == InitBody /\ [][NextBody]_vars /\ WF_vars(Tick) /\ WF_vars(FireSome)

\* ------------------------------------------------------------------------
\* Claims about the life cycle (SpecLife)
\* ------------------------------------------------------------------------
\* the two messages start throws for a port it rejects
InvalidPortErrors ==
    {"Invalid port number", "Port number is out of the range[1025-49151]"}

\* C1: in every state, start(port) with a port that is not numeric or lies
\* outside [1025, 49151] throws an invalid-port error and leaves the server
\* state, the stored port, the listener, the mapping list and the pending
\* slot as they were.
C1_InvalidPortRejected ==
    \A port \in InvalidPorts, free \in BOOLEAN :
        LET r == start(Module, port, free) IN
        /\ r.threw \in InvalidPortErrors
        /\ r.m = Module

\* C2: in every state and for every port p in [1025, 49151], given as a
\* number or as a numeric string, start(p) returns normally when the port can
\* be bound, and then a listener is bound to p, isServerUp() is true and the
\* stored port is p.
C2_ValidPortStarts ==
    \A port \in ValidPorts :
        LET r == start(Module, port, TRUE) IN
        /\ r.threw = NoError
        /\ isServerUp(r.m)
        /\ r.m.port = PortOf(port)
        /\ r.m.listeners = {PortOf(port)}

\* a start has bound the listener to the upper end of the range
C2_Witness ==
    /\ lastCall.op = "start" /\ lastCall.threw = NoError
    /\ _isServerUp
    /\ _port = 49151
    /\ listeners = {49151}

\* C9 as stated: two close() calls leave what one leaves, the stopped state
\* with port 0, no listener, no mapping and no pending pattern, and close()
\* on a server that is already stopped (not up, port 0) changes nothing.
C9_CloseOnStoppedIsNoOp ==
    /\ close(close(Module)) = close(Module)
    /\ (~_isServerUp /\ _port = 0) => close(Module) = Module

\* C9 amended: in every state, close() leaves isServerUp false, port 0, no
\* server object, no listener, an empty mapping list and an empty pending
\* slot, and a second close() changes nothing more.
C9_CloseIdempotent ==
    LET once == close(Module)
        twice == close(once)
    IN  /\ twice = once
        /\ ~isServerUp(once)
        /\ once.port = 0
        /\ once.server = NullServer
        /\ once.listeners = {}
        /\ once.mapping = <<>>
        /\ NoKeys(once.currentReq)

\* a close() has stopped a server that ran; nothing is left to close
C9_Witness ==
    /\ lastCall.op = "close" /\ lastCall.threw = NoError
    /\ Len(responses) > 0
    /\ ~_isServerUp /\ _port = 0 /\ listeners = {} /\ server = NullServer

\* ------------------------------------------------------------------------
\* Claims about the mapping store (SpecMap)
\* ------------------------------------------------------------------------
\* every inbound request the model knows
AllRequests == {ReqGetAb, ReqGetAxc, ReqGetZ, ReqPost1, ReqPost2}

\* every response plan the model knows
AllPlans == {PlanText, PlanSlow, PlanHang, PlanHangStr, PlanNoHang, PlanNoFile}

\* the handler answered 404: no body, no timer, the connection closed once
Is404(resp) ==
    /\ resp.statusCode = 404
    /\ resp.writes = <<>>
    /\ resp.timers = <<>>
    /\ resp.closes = 1

\* C3: whenever the pending slot is empty, response(plan) throws and leaves
\* the mapping list, the pending slot, the server state and the interception
\* hook as they were; the mapping list gains an entry from a response() call
\* only when the pending slot holds a pattern, and then exactly that pattern
\* with the plan.
C3_ResponseNeedsWhen ==
    \A plan \in AllPlans :
        LET r == response(Module, plan) IN
        /\ NoKeys(_currentReq) =>
               /\ r.threw = "Please call .when() to set the request pattern first"
               /\ r.m = Module
        /\ r.m.mapping # _mapping =>
               /\ ~NoKeys(_currentReq)
               /\ r.m.mapping = Append(_mapping, [request |-> _currentReq, response |-> plan])

\* a response() has failed after an earlier one had consumed the pattern
C3_Witness ==
    /\ lastCall.op = "response"
    /\ lastCall.threw # NoError
    /\ NoKeys(_currentReq)
    /\ Len(_mapping) > 0
    /\ _isServerUp

\* C6: in every state, reset() empties the mapping list and the pending slot
\* and keeps isServerUp and the stored port, and the handler answers every
\* request that arrives in the state reset() leaves with 404.
C6_ResetClears ==
    LET r == reset(Module) IN
    /\ r.mapping = <<>>
    /\ NoKeys(r.currentReq)
    /\ isServerUp(r) = _isServerUp
    /\ r.port = _port
    /\ r.server = server
    /\ r.listeners = listeners
    /\ \A request \in AllRequests : Is404(Handler(r, request))

\* a running server was reset and a request got 404 from it
C6_Witness ==
    /\ lastCall.op = "reset"
    /\ _isServerUp
    /\ _mapping = <<>>
    /\ NoKeys(_currentReq)
    /\ \E i \in 1..Len(responses) : Is404(responses[i]) /\ responses[i].branch = "nomatch"

\* C10: for every request pattern p, the pattern without any field included,
\* when(p) sets the pending slot, and the response(plan) that follows returns
\* normally, appends the one entry {p, plan} to the mapping list and empties
\* the pending slot; an entry without method, url and data matches every
\* request.
C10_WhenThenResponse ==
    \A p \in MapPatterns, plan \in MapPlans :
        LET w == when(Module, p)
            r == response(w.m, plan)
        IN  /\ w.threw = NoError
            /\ r.threw = NoError
            /\ r.m.mapping = Append(_mapping, [request |-> w.m.currentReq, response |-> plan])
            /\ NoKeys(r.m.currentReq)
            /\ (\A k \in {"method", "url", "data"} : k \notin DOMAIN p) =>
                   \A request \in AllRequests :
                       MatchCond(r.m.mapping[Len(r.m.mapping)].request, request)

\* ------------------------------------------------------------------------
\* Claims about serving requests (SpecServe, SpecTime)
\* ------------------------------------------------------------------------
\* the lowest index of an entry whose pattern matches the request, 0 if none
FirstMatch(mapping, request) ==
    IF \E i \in 1..Len(mapping) : MatchCond(mapping[i].request, request)
    THEN CHOOSE i \in 1..Len(mapping) :
             /\ MatchCond(mapping[i].request, request)
             /\ \A j \in 1..(i - 1) : ~MatchCond(mapping[j].request, request)
    ELSE 0

\* what a plan asks for
StatusOf(plan) == IF "status" \in DOMAIN plan THEN plan.status ELSE 200

HeadersOf(plan) == IF "headers" \in DOMAIN plan THEN plan.headers ELSE {}

DelayMs(plan) ==
    IF "responseTime" \in DOMAIN plan /\ plan.responseTime.t = "number"
    THEN plan.responseTime.n
    ELSE 0

AsksTimeout(plan) ==
    "isTimeout" \in DOMAIN plan /\ plan.isTimeout \in {Bool(TRUE), Name("true")}

AsksNoTimeout(plan) ==
    "isTimeout" \notin DOMAIN plan \/ plan.isTimeout \in {Bool(FALSE), Name("false")}

\* the response object is the one plan alone produces for the request
AnsweredBy(resp, plan) ==
    /\ resp.statusCode = StatusOf(plan)
    /\ resp.headers = HeadersOf(plan)
    /\ IF AsksTimeout(plan)
       THEN resp.timers = <<>> /\ resp.branch = "timeout"
       ELSE /\ Len(resp.timers) = 1
            /\ resp.timers[1].timeout = DelayMs(plan)
            /\ resp.timers[1].remaining = DelayMs(plan)
            /\ resp.timers[1].responseText = ResponseText(plan)
            /\ resp.branch = "matched"
    /\ resp.writes = <<>>
    /\ resp.closes = 0

\* the handler wrote the message about the unfinished when() and closed
AnsweredPending(resp) ==
    /\ resp.statusCode = 200
    /\ resp.headers = {}
    /\ resp.writes = <<PendingMsg>>
    /\ resp.timers = <<>>
    /\ resp.closes = 1

\* a request has arrived in this step and the handler has run on it
Arrived == Len(responses') = Len(responses) + 1

\* the response object of the request that has arrived
Handled == responses'[Len(responses')]

\* the handler answered h from the lowest-index matching entry of the list
FromFirstMatch(h) ==
    LET i == FirstMatch(_mapping, h.req) IN
    /\ i # 0
    /\ h.entry = i
    /\ AnsweredBy(h, _mapping[i].response)

\* C4: whenever the handler answers a request from the mapping list, the
\* status, headers, body, delay and timeout behaviour are those of the
\* lowest-index entry whose pattern matches, and no more than one response
\* is scheduled for the request.
C4_FirstMatchWins ==
    [][ Arrived =>
          /\ Handled.isMatched => FromFirstMatch(Handled)
          /\ Len(Handled.timers) <= 1 ]_vars

\* a request was answered by the first of two entries that both match it and
\* that hold different plans
C4_Witness ==
    \E n \in 1..Len(responses) :
        /\ Len(_mapping) = 2
        /\ responses[n].entry = 1
        /\ MatchCond(_mapping[1].request, responses[n].req)
        /\ MatchCond(_mapping[2].request, responses[n].req)
        /\ _mapping[1].response # _mapping[2].response
        /\ responses[n].statusCode = StatusOf(_mapping[1].response)
        /\ responses[n].statusCode # StatusOf(_mapping[2].response)

\* the handler answered h from the committed list alone
FromCommittedList(h) ==
    IF FirstMatch(_mapping, h.req) # 0 THEN FromFirstMatch(h) ELSE Is404(h)

\* C5 as stated: in every state of a running server, the pending slot full
\* or empty, a request is answered by the plan of the first matching
\* committed entry, or with 404 and no body when no committed entry matches.
C5_PendingNeverMatters ==
    [][ Arrived => FromCommittedList(Handled) ]_vars

\* C5 amended: a request that arrives while the pending slot is empty is
\* answered by the plan of the first matching committed entry, or with 404,
\* no body and the connection closed when none matches; a request that
\* arrives while the pending slot holds a pattern is answered with status
\* 200 and the message about the missing response(), and closed, whatever
\* the mapping list holds.
C5_CommittedListUnlessPending ==
    [][ Arrived =>
          IF NoKeys(_currentReq) THEN FromCommittedList(Handled)
          ELSE AnsweredPending(Handled) ]_vars

\* a request that a committed entry matches arrived between when() and
\* response() and got the message
C5_Witness ==
    /\ _isServerUp
    /\ ~NoKeys(_currentReq)
    /\ \E n \in 1..Len(responses) :
           /\ AnsweredPending(responses[n])
           /\ responses[n].branch = "pending"
           /\ FirstMatch(_mapping, responses[n].req) # 0

\* a response object on which nothing was scheduled, written or closed
LeftOpen(resp) ==
    /\ resp.timers = <<>>
    /\ resp.writes = <<>>
    /\ resp.closes = 0

\* what the handler did with a request whose first matching entry asks for a
\* timeout, and with one whose first matching entry does not
TimeoutDecision(h) ==
    LET i == FirstMatch(_mapping, h.req) IN
    i # 0 =>
        /\ AsksTimeout(_mapping[i].response) => LeftOpen(h) /\ h.branch = "timeout"
        /\ AsksNoTimeout(_mapping[i].response) =>
               h.branch # "timeout" /\ h.timers # <<>>

\* a request that met a timeout plan stays unanswered
HangsForever ==
    \A n \in 1..Len(responses) :
        responses[n].branch = "timeout" => LeftOpen(responses[n])

\* C7 as stated: when the first matching entry of a request has isTimeout
\* true or "true", the handler schedules no timer, writes nothing and does
\* not close the connection, now or later, whatever else the plan carries;
\* a plan with isTimeout false, "false" or absent is never a timeout.
C7_TimeoutNeverAnswers ==
    /\ [][ Arrived => TimeoutDecision(Handled) ]_vars
    /\ [][ HangsForever' ]_vars

\* C7 amended: the same, for a request that arrives while the pending slot
\* is empty.
C7_TimeoutUnlessPending ==
    /\ [][ Arrived /\ NoKeys(_currentReq) => TimeoutDecision(Handled) ]_vars
    /\ [][ HangsForever' ]_vars

\* a request met the timeout plan that also carries a delay and a text, and
\* it is still open after the mappings were reset
C7_Witness ==
    /\ lastCall.op = "reset"
    /\ _mapping = <<>>
    /\ \E n \in 1..Len(responses) :
           /\ responses[n].branch = "timeout"
           /\ responses[n].statusCode = 500
           /\ LeftOpen(responses[n])

\* what the handler did with a request whose first matching entry is no
\* timeout plan
TimedDecision(h) ==
    LET i == FirstMatch(_mapping, h.req) IN
    (i # 0 /\ ~AsksTimeout(_mapping[i].response)) =>
        /\ h.statusCode = StatusOf(_mapping[i].response)
        /\ h.headers = HeadersOf(_mapping[i].response)
        /\ h.branch = "matched"
        /\ h.writes = <<>>
        /\ h.closes = 0
        /\ Len(h.timers) = 1
        /\ h.timers[1].timeout = DelayMs(_mapping[i].response)
        /\ h.timers[1].remaining = DelayMs(_mapping[i].response)

\* no connection is written or closed twice, and a scheduled response is
\* not written before its delay has passed
AtMostOnceAndNotEarly ==
    \A n \in 1..Len(responses) :
        /\ Len(responses[n].writes) <= 1
        /\ responses[n].closes <= 1
        /\ \A k \in 1..Len(responses[n].timers) :
               responses[n].timers[k].fired =>
                   responses[n].elapsed >= responses[n].timers[k].timeout

\* request n was written and closed
Answered(n) ==
    /\ n <= Len(responses)
    /\ Len(responses[n].writes) = 1
    /\ responses[n].closes = 1

\* a request for which the handler scheduled a response is answered
EventuallyAnswered ==
    \A n \in 1..MaxReq :
        (n <= Len(responses) /\ responses[n].branch = "matched") ~> Answered(n)

\* C8 as stated: every request whose first matching entry is no timeout plan
\* gets the status and headers of that plan and is written and closed
\* exactly once, not before the plan's delay has passed; no connection is
\* written or closed twice.
C8_AnsweredOnceAfterDelay ==
    /\ [][ Arrived => TimedDecision(Handled) ]_vars
    /\ [][ AtMostOnceAndNotEarly' ]_vars
    /\ EventuallyAnswered

\* C8 amended: the same, for a request that arrives while the pending slot
\* is empty.
C8_AnsweredOnceUnlessPending ==
    /\ [][ Arrived /\ NoKeys(_currentReq) => TimedDecision(Handled) ]_vars
    /\ [][ AtMostOnceAndNotEarly' ]_vars
    /\ EventuallyAnswered

\* a delayed response was written once, after its two milliseconds
C8_Witness ==
    \E n \in 1..Len(responses) :
        /\ responses[n].branch = "matched"
        /\ responses[n].writes = <<"R2">>
        /\ responses[n].closes = 1
        /\ responses[n].timers[1].timeout = 2
        /\ responses[n].elapsed >= 2

\* ------------------------------------------------------------------------
\* C11: what the public functions return
\* ------------------------------------------------------------------------
ChainedOps == {"start", "close", "when", "response", "reset"}

\* C11 as stated: every call of start, close, when, response or reset that
\* returns normally returns the server object itself.
C11_CallsReturnTheServer ==
    (lastCall.op \in ChainedOps /\ lastCall.threw = NoError)
        => lastCall.ret = MockServerObject

\* ------------------------------------------------------------------------
\* C13, C14, C15: start on a running server, and a bind that fails
\* ------------------------------------------------------------------------
\* C13: on a server running on p, start(p), with p given as a number or as a
\* numeric string, returns normally whether or not the port could be bound
\* anew, leaves the server object and the bound listeners as they are, and
\* leaves the server up on p with an empty mapping list and an empty pending
\* slot.
C13_SamePortStartOnlyResets ==
    \A port \in ValidPorts : \A free \in BOOLEAN :
        (_isServerUp /\ PortOf(port) = _port) =>
            LET r == start(Module, port, free)
            IN  /\ r.threw = NoError
                /\ r.m.server = server
                /\ r.m.listeners = listeners
                /\ isServerUp(r.m)
                /\ r.m.port = _port
                /\ r.m.mapping = <<>>
                /\ NoKeys(r.m.currentReq)

\* start("49151") was called on a server running on 49151
C13_Witness ==
    /\ lastCall.op = "start"
    /\ lastCall.log = SamePortLog
    /\ lastCall.wasOn = 49151
    /\ _isServerUp
    /\ _port = 49151
    /\ listeners = {49151}
    /\ _mapping = <<>>
    /\ NoKeys(_currentReq)

\* C14: in every reachable state at most one listener is bound and
\* isServerUp() is true exactly when one is bound; on a server running on p,
\* start(q) with another valid q leaves q as the only listener, the server up
\* on q and the mapping list and pending slot empty when the bind succeeds,
\* and leaves no listener, an empty mapping list and an empty pending slot
\* when the bind fails.
C14_RestartMovesTheListener ==
    /\ Cardinality(listeners) <= 1
    /\ isServerUp(Module) <=> listeners # {}
    /\ \A port \in ValidPorts :
           (_isServerUp /\ PortOf(port) # _port) =>
               LET ok == start(Module, port, TRUE)
                   ko == start(Module, port, FALSE)
               IN  /\ ok.threw = NoError
                   /\ ok.m.listeners = {PortOf(port)}
                   /\ isServerUp(ok.m)
                   /\ ok.m.port = PortOf(port)
                   /\ ok.m.mapping = <<>>
                   /\ NoKeys(ok.m.currentReq)
                   /\ ko.m.listeners = {}
                   /\ ~isServerUp(ko.m)
                   /\ ko.m.mapping = <<>>
                   /\ NoKeys(ko.m.currentReq)

\* start(1025) was called on a server running on 49151
C14_Witness ==
    /\ lastCall.op = "start"
    /\ lastCall.log = UpLog
    /\ lastCall.wasOn = 49151
    /\ _isServerUp
    /\ _port = 1025
    /\ listeners = {1025}
    /\ _mapping = <<>>

\* the server is stopped: not up, no port stored, nothing bound
Stopped == ~_isServerUp /\ _port = 0 /\ listeners = {}

\* C15 as stated: start(p) with a valid p on a stopped server whose bind
\* fails throws the start error and leaves the server stopped as before:
\* not up, stored port 0, and the outbound hook the one installed before.
C15_FailedBindLeavesStopped ==
    \A port \in ValidPorts :
        Stopped =>
            LET r == start(Module, port, FALSE)
            IN  /\ r.threw = "Mock Server is NOT started successfully."
                /\ ~isServerUp(r.m)
                /\ r.m.port = 0
                /\ r.m.hook = hook

\* ------------------------------------------------------------------------
\* C12: the body of a response
\* ------------------------------------------------------------------------
\* the body the claim gives a plan
BodyOf(plan) ==
    IF "responseText" \in DOMAIN plan THEN plan.responseText
    ELSE IF "responseFile" \notin DOMAIN plan \/ plan.responseFile = "" THEN ""
    ELSE IF plan.responseFile \in ReadableFiles THEN fsRead(plan.responseFile)
    ELSE ""

\* the files the claim lets the handler read for a plan
ReadsOf(plan) ==
    IF "responseText" \in DOMAIN plan THEN {}
    ELSE IF "responseFile" \notin DOMAIN plan \/ plan.responseFile = "" THEN {}
    ELSE {plan.responseFile}

\* the handler matched a plan that asks for no timeout and scheduled, with
\* the plan's status and headers, the body the claim gives the plan
BodyDecision(h) ==
    (h.isMatched /\ AsksNoTimeout(_mapping[h.entry].response)) =>
        LET plan == _mapping[h.entry].response
        IN  /\ h.statusCode = StatusOf(plan)
            /\ h.headers = HeadersOf(plan)
            /\ h.reads = ReadsOf(plan)
            /\ Len(h.timers) = 1
            /\ h.timers[1].responseText = BodyOf(plan)
            /\ h.writes = <<>>
            /\ h.closes = 0

\* what was written to a closed connection is the body scheduled for it
WroteScheduledBody ==
    \A n \in 1..Len(responses) :
        (responses[n].branch = "matched" /\ responses[n].closes > 0) =>
            responses[n].writes = <<responses[n].timers[1].responseText>>

\* C12: for a matched plan that asks for no timeout the body is the
\* responseText when the plan has one, the empty string included, and then
\* no file is read; otherwise the content of responseFile when the plan
\* names a file that can be read, and the empty string when the read fails
\* or no file is named. The handler run changes nothing of the module, and
\* the request is answered with the plan's status and headers and that body.
C12_BodyResolution ==
    /\ [][ Arrived => BodyDecision(Handled) ]_vars
    /\ [][ Arrived => UNCHANGED <<server, _mapping, _port, _isServerUp,
                                  _currentReq, hook, listeners>> ]_vars
    /\ [][ WroteScheduledBody' ]_vars
    /\ EventuallyAnswered

\* a plan naming a file that cannot be read was answered with an empty body
\* and the server still runs with its mapping
C12_Witness ==
    \E n \in 1..Len(responses) :
        /\ responses[n].branch = "matched"
        /\ responses[n].reads = {"missing.txt"}
        /\ responses[n].writes = <<"">>
        /\ responses[n].closes = 1
        /\ _isServerUp
        /\ Len(_mapping) > 0

\* ------------------------------------------------------------------------
\* C16: when an entry matches a request on the socket path
\* ------------------------------------------------------------------------
\* a field of a pattern is absent or empty
Absent(pattern, key) ==
    \/ key \notin DOMAIN pattern
    \/ pattern[key] = (IF key = "method" THEN "" ELSE <<>>)

MethodMatches(pattern, request) ==
    \/ Absent(pattern, "method")
    \/ toUpperCase(pattern.method) = toUpperCase(request.method)

UrlMatches(pattern, request) ==
    \/ Absent(pattern, "url")
    \/ Contains(request.url, pattern.url)
    \/ RegExpTest(pattern.url, request.url)

HasBody(request) == "post" \in DOMAIN request /\ request.post # <<>>

DataMatches(pattern, request) ==
    \/ Absent(pattern, "data")
    \/ /\ HasBody(request)
       /\ \/ Contains(JSONstringify(request.post), pattern.data)
          \/ RegExpTest(pattern.data, JSONstringify(request.post))

\* the three dimensions of the claim
EntryMatches(pattern, request) ==
    /\ MethodMatches(pattern, request)
    /\ UrlMatches(pattern, request)
    /\ DataMatches(pattern, request)

\* the condition of the handler is the rule of the claim, for every entry of
\* the list a request arrives at and every request; a pattern with data
\* matches no request without body
MatchRule ==
    \A i \in 1..Len(_mapping) : \A request \in AllRequests :
        /\ MatchCond(_mapping[i].request, request)
               <=> EntryMatches(_mapping[i].request, request)
        /\ (~Absent(_mapping[i].request, "data") /\ ~HasBody(request))
               => ~MatchCond(_mapping[i].request, request)

\* the handler answered from an entry only if the entry matches, and with
\* 404 if no entry matches
DecidedByRule(h) ==
    /\ h.isMatched => EntryMatches(_mapping[h.entry].request, h.req)
    /\ (\A i \in 1..Len(_mapping) : ~EntryMatches(_mapping[i].request, h.req))
           => Is404(h)

\* C16 as stated: an entry matches a request exactly when the method, the
\* url and the data dimension all match; an entry with a data pattern
\* matches no request without body; a request that no entry matches is
\* answered with 404.
C16_ThreeDimensionMatch ==
    [][ Arrived => (MatchRule /\ DecidedByRule(Handled)) ]_vars

\* C16 amended: the same, the 404 being the answer to a request that
\* arrives while the pending slot is empty.
C16_ThreeDimensionMatchUnlessPending ==
    [][ Arrived => (MatchRule /\ (NoKeys(_currentReq) => DecidedByRule(Handled))) ]_vars

\* a POST to a matching url whose body does not match the data pattern of
\* the only entry was answered with 404
C16_Witness ==
    /\ Len(_mapping) = 1
    /\ _mapping[1].request = PatData
    /\ NoKeys(_currentReq)
    /\ Len(responses) > 0
    /\ responses[Len(responses)].req = ReqPost2
    /\ Is404(responses[Len(responses)])

\* ------------------------------------------------------------------------
\* C17: a scheduled response and later calls of the module
\* ------------------------------------------------------------------------
\* what was fixed for request n when it arrived stays as it is, and what is
\* written for it is the text fixed then, written and closed once
KeepsWhatWasScheduled(n) ==
    LET old == responses[n]
        new == responses'[n]
    IN  old.branch = "matched" =>
            /\ new.branch = "matched"
            /\ new.statusCode = old.statusCode
            /\ new.headers = old.headers
            /\ Len(new.timers) = 1
            /\ new.timers[1].responseText = old.timers[1].responseText
            /\ new.timers[1].timeout = old.timers[1].timeout
            /\ old.timers[1].fired => new.timers[1].fired
            /\ new.writes # old.writes =>
                   /\ new.writes = <<old.timers[1].responseText>>
                   /\ new.closes = 1

\* the handler scheduled for the request what the plan of the entry it
\* matched says
ScheduledFromPlan(h) ==
    h.branch = "matched" => AnsweredBy(h, _mapping[h.entry].response)

\* every request for which a response was scheduled is answered
EachEventuallyAnswered ==
    \A n \in 1..ConcReq :
        (n <= Len(responses) /\ responses[n].branch = "matched") ~> Answered(n)

\* C17: a response scheduled for a request has the status, headers and body
\* of the plan matched at arrival; no later step, a call of start, close,
\* when, response or reset included, changes them or cancels the timer; and
\* the request is written and closed with that body.
C17_ScheduledResponseSurvives ==
    /\ [][ Arrived => ScheduledFromPlan(Handled) ]_vars
    /\ [][ \A n \in 1..Len(responses) : KeepsWhatWasScheduled(n) ]_vars
    /\ EachEventuallyAnswered

\* the server was closed and its mappings cleared while a response scheduled
\* with a delay of two milliseconds still waits for its timer
C17_Witness ==
    \E n \in 1..Len(responses) :
        /\ responses[n].branch = "matched"
        /\ responses[n].timers[1].timeout = 2
        /\ ~responses[n].timers[1].fired
        /\ responses[n].elapsed >= 1
        /\ lastCall.op = "close"
        /\ ~_isServerUp
        /\ _mapping = <<>>

\* ------------------------------------------------------------------------
\* C18: requests in flight together
\* ------------------------------------------------------------------------
\* the handler run for a new request leaves the earlier requests as they are
\* and decides the new one at once: from the plan of the entry it matched,
\* with a timer of that plan's delay
DecidedAtOnce(h) ==
    /\ SubSeq(responses', 1, Len(responses)) = responses
    /\ h.branch # "none"
    /\ ScheduledFromPlan(h)

\* a scheduled response whose own delay has passed can be written, whatever
\* the state of the other requests
DueCanFire ==
    \A n \in 1..Len(responses) :
        (/\ responses[n].branch = "matched"
         /\ ~responses[n].timers[1].fired
         /\ responses[n].timers[1].remaining = 0) => ENABLED Fire(n, 1)

\* C18: while earlier requests wait for their timers or hang, the handler
\* decides a new request in the step it arrives in and schedules it with the
\* delay of its own entry; a response whose own delay has passed can be
\* written whatever the other requests do, is not written before that, is
\* written with the body fixed for it at arrival, and is written in the end
\* although an earlier request hangs for ever.
C18_TimersDoNotBlock ==
    /\ [][ Arrived => DecidedAtOnce(Handled) ]_vars
    /\ [][ DueCanFire' ]_vars
    /\ [][ AtMostOnceAndNotEarly' ]_vars
    /\ [][ \A n \in 1..Len(responses) : KeepsWhatWasScheduled(n) ]_vars
    /\ EachEventuallyAnswered

\* the later request, scheduled with one millisecond, is answered while the
\* earlier one, scheduled with two, still waits
C18_Witness ==
    /\ Len(responses) >= 2
    /\ responses[1].branch = "matched"
    /\ responses[1].timers[1].timeout = 2
    /\ ~responses[1].timers[1].fired
    /\ responses[1].writes = <<>>
    /\ responses[2].branch = "matched"
    /\ responses[2].timers[1].timeout = 1
    /\ responses[2].writes = <<"R5">>
    /\ responses[2].closes = 1

\* ------------------------------------------------------------------------
\* C19, C20: the hook on outbound requests of a CasperJS host
\* ------------------------------------------------------------------------
\* C19 as stated: in a CasperJS host, whenever the server is up and the
\* mapping list is not empty or the pending slot holds a pattern, the
\* installed outbound hook is the one of the module.
C19_HookInstalledWhileMocking ==
    (/\ casperInUse
     /\ _isServerUp
     /\ (_mapping # <<>> \/ ~NoKeys(_currentReq))) => hook = "bridge"

\* the patterns the hook goes through: those of the list, then the pending one
HookPatterns ==
    {_mapping[i].request : i \in 1..Len(_mapping)}
        \cup (IF NoKeys(_currentReq) THEN {} ELSE {_currentReq})

\* C20 as stated: whenever the hook of the module is installed, for every
\* pattern it goes through and every request, with or without body, the hook
\* redirects exactly when the socket handler's condition matches, and it
\* never fails.
C20_BothPathsDecideAlike ==
    hook = "bridge" =>
        \A pattern \in HookPatterns : \A request \in AllRequests :
            ChangeUrlCond(pattern, RequestData(request))
                = (IF MatchCond(pattern, request) THEN "redirect" ELSE "pass")

\* ------------------------------------------------------------------------
\* C23: a when() that follows a when()
\* ------------------------------------------------------------------------
\* C23 as stated: whenever the pending slot holds a pattern p1, when(p2)
\* returns normally, makes p2 the pending pattern and leaves the mapping list
\* as it is, and the response(plan) that follows returns normally and appends
\* the one entry {p2, plan}, so that p1 is not appended.
C23_LastWhenWins ==
    \A p2 \in MapPatterns, plan \in MapPlans :
        ~NoKeys(_currentReq) =>
            LET w == when(Module, p2)
                r == response(w.m, plan)
            IN  /\ w.threw = NoError
                /\ w.m.currentReq = p2
                /\ w.m.mapping = _mapping
                /\ r.threw = NoError
                /\ r.m.mapping = Append(_mapping, [request |-> p2, response |-> plan])

\* the same for every p2 that has a field
C23_LastWhenWinsWithField ==
    \A p2 \in MapPatterns \ {PatEmpty}, plan \in MapPlans :
        ~NoKeys(_currentReq) =>
            LET w == when(Module, p2)
                r == response(w.m, plan)
            IN  /\ w.threw = NoError
                /\ w.m.currentReq = p2
                /\ w.m.mapping = _mapping
                /\ r.threw = NoError
                /\ r.m.mapping = Append(_mapping, [request |-> p2, response |-> plan])

\* ------------------------------------------------------------------------
\* C24: mappings defined while the server is stopped
\* ------------------------------------------------------------------------
\* C24: whenever the server is not up, when(p) returns normally and sets the
\* pending slot, response(plan) on a pending pattern returns normally and
\* appends the entry, and start(p) with a valid port that can be bound
\* brings the server up with the mapping list and the pending slot as they
\* were, so that the handler of the started server answers from the entries
\* defined before; no start, whatever its argument and whether or not the
\* bind succeeds, changes the mapping list of a server that is not up.
C24_MappingsSurviveStart ==
    ~_isServerUp =>
        /\ \A req \in LifePatterns :
               LET w == when(Module, req)
               IN  /\ w.threw = NoError
                   /\ w.m.currentReq = req
                   /\ w.m.mapping = _mapping
        /\ \A plan \in LifePlans :
               ~NoKeys(_currentReq) =>
                   LET r == response(Module, plan)
                   IN  /\ r.threw = NoError
                       /\ r.m.mapping =
                              Append(_mapping, [request |-> _currentReq, response |-> plan])
        /\ \A port \in ValidPorts :
               LET s == start(Module, port, TRUE)
               IN  /\ s.threw = NoError
                   /\ isServerUp(s.m)
                   /\ s.m.mapping = _mapping
                   /\ s.m.currentReq = _currentReq
                   /\ NoKeys(_currentReq) =>
                          \A request \in LifeRequests :
                              FromCommittedList(Handler(s.m, request))
        /\ \A port \in Ports : \A free \in BOOLEAN :
               start(Module, port, free).m.mapping = _mapping

\* a server started while stopped with an entry in its list has answered a
\* request from that entry
C24_Witness ==
    /\ lastCall.op = "start"
    /\ lastCall.log = UpLog
    /\ lastCall.wasOn = 0
    /\ _isServerUp
    /\ Len(_mapping) > 0
    /\ \E n \in 1..Len(responses) :
           /\ responses[n].isMatched
           /\ responses[n].entry <= Len(_mapping)
           /\ responses[n].statusCode = StatusOf(_mapping[responses[n].entry].response)

\* ------------------------------------------------------------------------
\* C22: the hook that reset() puts back
\* ------------------------------------------------------------------------
\* the module has just put its hook in the place of another one
Installed == hook # "bridge" /\ hook' = "bridge"

\* reset(), close() and a start() on the port the server runs on leave f as
\* the hook of the module state m
RestoresHook(m, f) ==
    /\ reset(m).hook = f
    /\ close(m).hook = f
    /\ m.isServerUp => start(m, Num(m.port), TRUE).m.hook = f

\* a second reset() leaves the hook of the first, which is never the hook
\* of the module
RestoreIsStable ==
    /\ reset(reset(Module)).hook = reset(Module).hook
    /\ reset(Module).hook # "bridge"

\* C22 as stated: whenever the module installs its hook, whatever calls and
\* hook installations came before, a reset(), a close() or a same-port
\* start() puts back the hook that the installation replaced; a second
\* reset() leaves that hook in place, and the hook put back is never the one
\* of the module.
C22_ResetRestoresReplacedHook ==
    /\ [][ Installed => RestoresHook(Module', hook) ]_vars
    /\ [][ RestoreIsStable' ]_vars

\* the same with the hook found at load in the place of the replaced one
C22_ResetRestoresLoadTimeHook ==
    /\ [][ Installed => RestoresHook(Module', _existingOnResourceRequested) ]_vars
    /\ [][ RestoreIsStable' ]_vars

\* ------------------------------------------------------------------------
\* C21: what the hook of the module does with an outbound request
\* ------------------------------------------------------------------------
\* the patterns in store order, the pending one last
PatternsInOrder ==
    [i \in 1..Len(_mapping) |-> _mapping[i].request]
        \o (IF NoKeys(_currentReq) THEN <<>> ELSE <<_currentReq>>)

\* the outbound request as the request the matching rule speaks of
AsRequest(requestData) ==
    IF "postData" \in DOMAIN requestData
    THEN [method |-> requestData.method, url |-> requestData.url,
          post |-> requestData.postData]
    ELSE [method |-> requestData.method, url |-> requestData.url]

\* how many of the patterns match the outbound request
MatchingCount(requestData) ==
    Cardinality({i \in 1..Len(PatternsInOrder) :
                    EntryMatches(PatternsInOrder[i], AsRequest(requestData))})

\* path and query of an absolute url: what follows the authority
PathAndQuery(url) ==
    LET starts == {k \in 2..Len(url) :
                      url[k] = "/" /\ url[k - 1] \notin {":", "/"}}
    IN  IF starts = {} THEN <<"/">>
        ELSE SubSeq(url, CHOOSE k \in starts : \A j \in starts : k <= j, Len(url))

PortText(port) ==
    CASE port = 1025 -> <<"1", "0", "2", "5">>
      [] port = 49151 -> <<"4", "9", "1", "5", "1">>

\* http://127.0.0.1:<port><path and query>
TargetOf(url, port) ==
    <<"h", "t", "t", "p", ":", "/", "/">>
        \o <<"1", "2", "7", ".", "0", ".", "0", ".", "1">>
        \o <<":">> \o PortText(port) \o PathAndQuery(url)

\* the hook of module state m calls f first, with the request data it got,
\* when f is a function, and calls nothing but changeUrl when it is not
DelegatesTo(m, f) ==
    \A requestData \in OutboundRequests :
        LET run == onResourceRequested(m, requestData) IN
        IF IsFunction(f)
        THEN /\ Len(run.calls) >= 1
             /\ run.calls[1].call = f
             /\ run.calls[1].arg = requestData
             /\ \A k \in 2..Len(run.calls) : run.calls[k].call = "changeUrl"
        ELSE \A k \in 1..Len(run.calls) : run.calls[k].call = "changeUrl"

\* the hook calls changeUrl once for each matching pattern, always with the
\* address of the mock server and the path and query of the request
RewritesPerMatch ==
    hook = "bridge" =>
        \A requestData \in OutboundRequests :
            LET run == onResourceRequested(Module, requestData)
                changes == SelectSeq(run.calls, LAMBDA c : c.call = "changeUrl")
            IN  /\ Len(changes) = MatchingCount(requestData)
                /\ \A k \in 1..Len(changes) :
                       changes[k].arg = TargetOf(requestData.url, _port)

\* C21 as stated: the hook of the module first calls the hook it replaced,
\* if that is a function, with the arguments it got; then it calls changeUrl
\* once for every pattern, stored or pending, that matches the request, each
\* time with http://127.0.0.1:<stored port> and the path and query of the
\* request, and not at all for a request that no pattern matches.
C21_HookDelegatesAndRewrites ==
    /\ [][ Installed => DelegatesTo(Module', hook) ]_vars
    /\ [][ RewritesPerMatch' ]_vars

\* the first part with the hook found at load in the place of the replaced one
C21_DelegatesToLoadTimeHook ==
    [][ Installed => DelegatesTo(Module', _existingOnResourceRequested) ]_vars

====
